---------------------------- MODULE Spec2Model ----------------------------
(* A model of scripts/generate_stencils.py: the extraction of display-math *)
(* segments, the per-segment parse / stencil-generation loop of main with  *)
(* its two exception handlers, and the writer of the combined document and *)
(* of the per-record files.                                                *)
(*                                                                         *)
(* Text is a sequence of characters (one-character strings).  A LaTeX      *)
(* control word such as \theta is kept as one element: it starts with a    *)
(* backslash followed by a letter, so it can never take part in a match of *)
(* the two-character delimiters, and strip and split treat it as a letter. *)
(* The symbolic library is opaque: an expression is the record of what was *)
(* parsed, sp.diff / sp.simplify / sp.latex build tagged terms, and whether *)
(* the library raises while a stencil is built is the environment's choice, *)
(* fixed per (expression, variable, order) in lib_fail.                    *)
EXTENDS Integers, Sequences, FiniteSets, TLC

VARIABLES
    tex,          \* contents of the input file (args.input)
    expr_strs,    \* result of extract_expressions(tex)
    idx,          \* 1-based position of the for loop over expr_strs
    stencils,     \* the record list
    origin,       \* history: origin[k] = position of the segment that appended stencils[k]
    parse_calls,  \* history: the strings handed to parse_latex, in call order
    stdout,       \* the printed lines, each tagged with the loop position it was printed at
    lib_fail,     \* environment: the (expression, variable, order) inputs on which sympy raises
    out_file,     \* the writes made to args.output, in order
    files,        \* the per-record files: filename -> the writes made to it
    written,      \* the per-record filenames opened for writing, in order
    i,            \* enumerate index of the writer loop (0-based, as in the code)
    dir_made,     \* os.makedirs(stencils_dir) has been called
    cd_call,      \* arguments of a direct call of generate_central_diff
    cd_ret,       \* what that call returned or raised
    pc            \* position of main

vars == <<tex, expr_strs, idx, stencils, origin, parse_calls, stdout, lib_fail,
          out_file, files, written, i, dir_made, cd_call, cd_ret, pc>>

(* ------------------------------ bounds -------------------------------- *)

\* Main run: total size of the input, counted as one per segment plus one
\* per character inside a segment.
MaxCost == 5

\* Extraction run: length of the raw text in characters.
MaxTexLen == 8

\* Direct calls of generate_central_diff: requested orders range over 0..MaxOrder.
MaxOrder == 5

\* Direct calls of generate_central_diff: length of the parsed expression text.
MaxExprLen == 2

(* ------------------------- sequences helpers -------------------------- *)

Range(s) == {s[k] : k \in DOMAIN s}

Min(S) == CHOOSE m \in S : \A n \in S : m <= n

SeqsUpTo(A, n) == UNION {[1..k -> A] : k \in 0..n}

(* ------------------------ extract_expressions ------------------------- *)

OpenAt(text, p) == p + 1 <= Len(text) /\ text[p] = "\\" /\ text[p + 1] = "["

CloseAt(text, p) == p + 1 <= Len(text) /\ text[p] = "\\" /\ text[p + 1] = "]"

\* The dot of the pattern under re.DOTALL: every character.
Dot(c) == TRUE

\* The lazy group picks the last closing delimiter instead of the first one.
GreedyClose(text, p) ==
    LET C == {k \in (p + 2)..(Len(text) - 1) :
                 CloseAt(text, k) /\ \A m \in (p + 2)..(k - 1) : Dot(text[m])}
    IN  IF C = {} THEN 0 ELSE CHOOSE k \in C : \A n \in C : n <= k

\* The position of the closing delimiter of the match of \\\[(.*?)\\\] that
\* starts at p (p is an opening delimiter), 0 when there is none: the lazy
\* group takes the first closing delimiter reachable over dot characters.
LazyClose(text, p) ==
    LET C == {k \in (p + 2)..(Len(text) - 1) :
                 CloseAt(text, k) /\ \A m \in (p + 2)..(k - 1) : Dot(text[m])}
    IN  IF C = {} THEN 0 ELSE Min(C)

\* re.findall scanning from position pos: leftmost match, then resume right
\* after it; the single group's text is what is returned for each match.
RECURSIVE FindAll(_, _)
FindAll(text, pos) ==
    IF pos > Len(text) THEN <<>>
    ELSE IF OpenAt(text, pos) /\ LazyClose(text, pos) # 0
         THEN LET c == LazyClose(text, pos)
              IN  <<SubSeq(text, pos + 2, c - 1)>> \o FindAll(text, c + 2)
         ELSE FindAll(text, pos + 1)

extract_expressions(text) == FindAll(text, 1)

(* --------------------------- str.strip / split ------------------------ *)

IsSpace(c) == c \in {" ", "\n", "\t"}

RECURSIVE LStrip(_)
LStrip(s) == IF s # <<>> /\ IsSpace(Head(s)) THEN LStrip(Tail(s)) ELSE s

RECURSIVE RStrip(_)
RStrip(s) ==
    IF s # <<>> /\ IsSpace(s[Len(s)]) THEN RStrip(SubSeq(s, 1, Len(s) - 1)) ELSE s

Strip(s) == RStrip(LStrip(s))

\* s.split(sep): the parts between the occurrences of sep, empty parts kept.
RECURSIVE Split(_, _)
Split(s, sep) ==
    LET P == {k \in DOMAIN s : s[k] = sep}
    IN  IF P = {} THEN <<s>>
        ELSE <<SubSeq(s, 1, Min(P) - 1)>> \o Split(SubSeq(s, Min(P) + 1, Len(s)), sep)

\* s[:n]
Take(s, n) == SubSeq(s, 1, IF Len(s) < n THEN Len(s) ELSE n)

\* The preview of the failing input in the parse warning is s[:50].
PreviewLen == 50

(* ------------------------------ symbols ------------------------------- *)

\* The LaTeX tokens that parse to a symbol, and the name of the symbol.
SymbolTokens == {"r", "\\theta", "\\phi", "t", "h"}

SymbolName(tok) ==
    CASE tok = "\\theta" -> "theta"
      [] tok = "\\phi"   -> "phi"
      [] OTHER           -> tok

\* spatial_vars = [r, theta, phi], in this order.
spatial_vars == <<"r", "theta", "phi">>

\* First version of the script: no test against the free symbols.
AllSpatialVars(free) == spatial_vars

\* relevant_vars = [var for var in spatial_vars if var in free_symbols]
relevant_vars(free) == SelectSeq(spatial_vars, LAMBDA v : v \in free)

(* ----------------------------- parse_latex ---------------------------- *)

\* parse_latex(s).  The grammar is not modelled: a string parses when it
\* holds at least one token and every token is a symbol (juxtaposition is a
\* product); an unbalanced brace, or the empty string, raises.  The result
\* records the text parsed and the free symbols of the expression.
parse_latex(s) ==
    LET toks == SelectSeq(s, LAMBDA c : ~IsSpace(c))
    IN  IF toks # <<>> /\ Range(toks) \subseteq SymbolTokens
        THEN [ok |-> TRUE, src |-> s, free_symbols |-> {SymbolName(c) : c \in Range(toks)}]
        ELSE [ok |-> FALSE, src |-> s, free_symbols |-> {}]

(* ------------------------ generate_central_diff ----------------------- *)

\* expr.subs(var, var + k*h)
Subs(expr, var, k) == [op |-> "subs", expr |-> expr.src, var |-> var, shift |-> k]

\* sp.diff(expr, var)
Diff(expr, var) == [op |-> "diff", expr |-> expr.src, var |-> var]

\* sp.simplify and the substitutions before it raise on the inputs of lib_fail.
SympyRaises(expr, var, order) == <<expr.src, var, order>> \in lib_fail

\* The final else is missing: an unsupported order falls through to the
\* two-point stencil.
generate_central_diff_no_else(expr, var, order) ==
    IF SympyRaises(expr, var, order)
    THEN [ok |-> FALSE, exc |-> "sympy", order |-> order]
    ELSE IF order = 4
    THEN [ok |-> TRUE, error |-> <<"O(h^", "4", ")">>,
          stencil |-> [op |-> "simplify", order |-> 4, expr |-> expr.src, var |-> var]]
    ELSE [ok |-> TRUE, error |-> <<"O(h^", "2", ")">>,
          stencil |-> [op |-> "simplify", order |-> 2, expr |-> expr.src, var |-> var]]

\* generate_central_diff(expr, var, order): the pair (simplified stencil,
\* error label), or the exception raised.  The stencil is the simplification
\* of sum(coef * expr.subs(var, var + shift*h)) / (den * h).
generate_central_diff(expr, var, order) ==
    IF order = 2
    THEN IF SympyRaises(expr, var, order)
         THEN [ok |-> FALSE, exc |-> "sympy", order |-> order]
         ELSE [ok |-> TRUE, error |-> <<"O(h^", "2", ")">>,
               stencil |-> [op |-> "simplify", den |-> 2,
                            num |-> << <<1, Subs(expr, var, 1)>>,
                                       <<-1, Subs(expr, var, -1)>> >>]]
    ELSE IF order = 4
    THEN IF SympyRaises(expr, var, order)
         THEN [ok |-> FALSE, exc |-> "sympy", order |-> order]
         ELSE [ok |-> TRUE, error |-> <<"O(h^", "4", ")">>,
               stencil |-> [op |-> "simplify", den |-> 12,
                            num |-> << <<-1, Subs(expr, var, 2)>>,
                                       <<8, Subs(expr, var, 1)>>,
                                       <<-8, Subs(expr, var, -1)>>,
                                       <<1, Subs(expr, var, -2)>> >>]]
    ELSE [ok |-> FALSE, exc |-> "ValueError: Unsupported stencil order", order |-> order]

(* ------------------------- the body of the loop ----------------------- *)

\* The accuracy-order labels of the two appended records.
Label2nd == <<"2", "n", "d", " ", "o", "r", "d", "e", "r">>

Label4th == <<"4", "t", "h", " ", "o", "r", "d", "e", "r">>

\* The tuple (sp.diff(sym_expr, var), stencil, err, var, label).
Record(expr, var, g, label) ==
    [deriv |-> Diff(expr, var), stencil |-> g.stencil, err |-> g.error,
     var |-> var, order |-> label]

\* print(f"Warning: Could not generate stencil for {var}: {e}")
StencilWarning(var, g) == [kind |-> "stencil", var |-> var, exc |-> g.exc]

\* print(f"Warning: Could not parse expression: {s[:50]}...: {e}")
ParseWarning(s) == [kind |-> "parse", preview |-> Take(s, PreviewLen), exc |-> "parse_latex"]

\* Each record is appended right after its stencil is generated, so a failure
\* of the second call leaves the first record in the list.
TryVarAppendEarly(expr, var) ==
    LET g2 == generate_central_diff(expr, var, 2)
        g4 == generate_central_diff(expr, var, 4)
    IN  IF ~g2.ok THEN [records |-> <<>>, warnings |-> <<StencilWarning(var, g2)>>]
        ELSE IF ~g4.ok THEN [records |-> <<Record(expr, var, g2, Label2nd)>>,
                             warnings |-> <<StencilWarning(var, g4)>>]
        ELSE [records |-> <<Record(expr, var, g2, Label2nd), Record(expr, var, g4, Label4th)>>,
              warnings |-> <<>>]

\* The two appends in the other order.
TryVarSwapped(expr, var) ==
    LET g2 == generate_central_diff(expr, var, 2)
        g4 == generate_central_diff(expr, var, 4)
    IN  IF ~g2.ok THEN [records |-> <<>>, warnings |-> <<StencilWarning(var, g2)>>]
        ELSE IF ~g4.ok THEN [records |-> <<>>, warnings |-> <<StencilWarning(var, g4)>>]
        ELSE [records |-> <<Record(expr, var, g4, Label4th), Record(expr, var, g2, Label2nd)>>,
              warnings |-> <<>>]

\* The inner try of one variable: both stencils are generated, then both
\* records are appended; an exception of either call is caught and printed.
TryVar(expr, var) ==
    LET g2 == generate_central_diff(expr, var, 2)
        g4 == generate_central_diff(expr, var, 4)
    IN  IF ~g2.ok THEN [records |-> <<>>, warnings |-> <<StencilWarning(var, g2)>>]
        ELSE IF ~g4.ok THEN [records |-> <<>>, warnings |-> <<StencilWarning(var, g4)>>]
        ELSE [records |-> <<Record(expr, var, g2, Label2nd), Record(expr, var, g4, Label4th)>>,
              warnings |-> <<>>]

\* for var in relevant_vars: ...
RECURSIVE VarLoop(_, _)
VarLoop(expr, vs) ==
    IF vs = <<>> THEN [records |-> <<>>, warnings |-> <<>>]
    ELSE LET one  == TryVar(expr, Head(vs))
             rest == VarLoop(expr, Tail(vs))
         IN  [records |-> one.records \o rest.records,
              warnings |-> one.warnings \o rest.warnings]

\* The right-hand side is taken after the first equality sign.
ParserInputFirstRhs(s) ==
    LET s1    == Strip(s)
        parts == Split(s1, "=")
    IN  IF "=" \in Range(s1)
        THEN IF Len(parts) >= 2 THEN [skip |-> FALSE, text |-> Strip(parts[2])]
             ELSE [skip |-> TRUE, text |-> s1]
        ELSE [skip |-> FALSE, text |-> s1]

\* The clean-up before the parser: strip, and for a segment with an equality
\* sign the stripped last part of split('='); skip marks the continue branch.
ParserInput(s) ==
    LET s1    == Strip(s)
        parts == Split(s1, "=")
    IN  IF "=" \in Range(s1)
        THEN IF Len(parts) >= 2 THEN [skip |-> FALSE, text |-> Strip(parts[Len(parts)])]
             ELSE [skip |-> TRUE, text |-> s1]
        ELSE [skip |-> FALSE, text |-> s1]

\* The except clause of the outer try prints nothing.
OnParseErrorSilent(text) == <<>>

\* The except clause of the outer try: one warning line.
OnParseError(text) == <<ParseWarning(text)>>

\* One iteration of the loop over expr_strs: what is handed to the parser
\* (none on the continue branch), the records appended and the lines printed.
SegmentResult(s) ==
    LET inp  == ParserInput(s)
        expr == parse_latex(inp.text)
        vs   == relevant_vars(expr.free_symbols)
    IN  IF inp.skip THEN [calls |-> <<>>, records |-> <<>>, warnings |-> <<>>, failed |-> FALSE]
        ELSE IF ~expr.ok
        THEN [calls |-> <<inp.text>>, records |-> <<>>,
              warnings |-> OnParseError(inp.text), failed |-> TRUE]
        ELSE [calls |-> <<inp.text>>, records |-> VarLoop(expr, vs).records,
              warnings |-> VarLoop(expr, vs).warnings, failed |-> FALSE]

\* The except clause of the outer try ends the loop (break for continue).
NextIndexBreak(res, k, n) == IF res.failed THEN n + 1 ELSE k + 1

\* The loop position after an iteration at position k of n segments: the
\* handlers end in continue (or fall through), so always the next one.
NextIndex(res, k, n) == k + 1

(* ------------------------------ the writer ---------------------------- *)

\* sp.latex(x)
Latex(x) == [op |-> "latex", arg |-> x]

\* s.replace(a, b) on a string of characters
Replace(s, a, b) == [k \in DOMAIN s |-> IF s[k] = a THEN b ELSE s[k]]

DigitChar(d) == <<"0", "1", "2", "3", "4", "5", "6", "7", "8", "9">>[d + 1]

\* The decimal digits of n >= 0.
RECURSIVE Digits(_)
Digits(n) == IF n < 10 THEN <<DigitChar(n)>> ELSE Digits(n \div 10) \o <<DigitChar(n % 10)>>

\* Format specification 03d: zero-padded on the left to at least three digits.
RECURSIVE ZeroPad(_, _)
ZeroPad(d, width) == IF Len(d) >= width THEN d ELSE ZeroPad(<<"0">> \o d, width)

Format03d(n) == ZeroPad(Digits(n), 3)

\* The filename leaves the position out.
StencilFilenameNoIndex(rec, k) ==
    <<"stencils/", "stencil_", rec.var, "_">> \o Replace(rec.order, " ", "_") \o <<".tex">>

\* os.path.join(stencils_dir, f"stencil_{var_name}_{order_name}_{i+1:03d}.tex")
\* for the record at enumerate index k.
StencilFilename(rec, k) ==
    <<"stencils/", "stencil_", rec.var, "_">> \o Replace(rec.order, " ", "_")
        \o <<"_">> \o Format03d(k + 1) \o <<".tex">>

\* The five writes that open the combined document.
\* A write of fixed text.
Text(s) == [line |-> "text", text |-> s]

Preamble ==
    << Text("\\documentclass{article}\n"),
       Text("\\usepackage{amsmath}\n"),
       Text("\\usepackage[margin=0.5in]{geometry}\n"),
       Text("\\begin{document}\n\n"),
       Text("\\section*{Finite Difference Stencils}\n\n") >>

EndDocument == Text("\\end{document}")

\* The line deriv \approx stencil \quad (err) of a display-math block.
BodyLine(rec) ==
    [line |-> "approx", lhs |-> Latex(rec.deriv), rhs |-> Latex(rec.stencil), err |-> rec.err]

\* The four writes of one record into the combined document.
CombinedBlock(rec) ==
    << [line |-> "comment", order |-> rec.order, var |-> rec.var],
       Text("\\[\n"),
       BodyLine(rec),
       Text("\\]\n\n") >>

\* The writes of one per-record file.
StencilFile(rec) ==
    << Text("\\documentclass{article}\n"),
       Text("\\usepackage{amsmath}\n"),
       Text("\\usepackage[margin=0.5in]{geometry}\n"),
       Text("\\begin{document}\n\n"),
       [line |-> "section", order |-> rec.order, var |-> rec.var],
       [line |-> "original", deriv |-> Latex(rec.deriv)],
       [line |-> "variable", var |-> rec.var],
       [line |-> "order", order |-> rec.order],
       [line |-> "error", err |-> rec.err],
       Text("\\[\n"),
       BodyLine(rec),
       Text("\\]\n\n"),
       Text("\\end{document}\n") >>

\* The loop writes the records from the second one on.
RecordAtSkipFirst(recs, k) == recs[IF k + 2 <= Len(recs) THEN k + 2 ELSE Len(recs)]

\* enumerate(stencils): the record at enumerate index k.
RecordAt(recs, k) == recs[k + 1]

(* ------------------------------- inputs ------------------------------- *)

\* The characters of a display-math segment of a main run: two spatial
\* symbols and the time symbol, the equality sign, a blank, and an opening
\* brace (never closed: a parse error).
SegmentAlphabet == {"r", "\\theta", "t", "=", " ", "{"}

\* The characters of the raw text of an extraction run.
RawAlphabet == {"\\", "[", "]", "\n"}

RECURSIVE WrapAll(_)
WrapAll(segs) ==
    IF segs = <<>> THEN <<>>
    ELSE <<"\\", "[">> \o Head(segs) \o <<"\\", "]">> \o WrapAll(Tail(segs))

\* The lists of segments of total size <= MaxCost: the texts over the segment
\* alphabet and an end-of-segment mark that are empty or end with the mark.
SegmentLists ==
    LET marked == {m \in SeqsUpTo(SegmentAlphabet \cup {"|"}, MaxCost) :
                      m = <<>> \/ m[Len(m)] = "|"}
    IN  {IF m = <<>> THEN <<>> ELSE Split(SubSeq(m, 1, Len(m) - 1), "|") : m \in marked}

\* The library inputs (expression, variable, order) a run over segs reaches.
LibraryInputs(segs) ==
    {<<parse_latex(ParserInput(segs[k]).text).src, v, o>> :
        k \in {n \in DOMAIN segs : parse_latex(ParserInput(segs[n]).text).ok},
        v \in Range(spatial_vars), o \in {2, 4}}

\* At most one input of the library raises.
LibFailChoices(segs) ==
    {{}} \cup {{x} : x \in {y \in LibraryInputs(segs) :
                              y[2] \in parse_latex(y[1]).free_symbols}}

Quiet ==
    /\ expr_strs = <<>> /\ idx = 1 /\ stencils = <<>> /\ origin = <<>>
    /\ parse_calls = <<>> /\ stdout = <<>> /\ out_file = <<>> /\ files = <<>>
    /\ written = <<>> /\ i = 0 /\ dir_made = FALSE

\* A run of main on an input file made of display-math segments.
Init ==
    /\ \E segs \in SegmentLists :
          /\ tex = WrapAll(segs)
          /\ lib_fail \in LibFailChoices(segs)
    /\ Quiet
    /\ cd_call = <<>> /\ cd_ret = <<>>
    /\ pc = "start"

(* ------------------------------- main --------------------------------- *)

\* with open(args.input) ...; expr_strs = extract_expressions(tex)
ReadAndExtract ==
    /\ pc = "start"
    /\ expr_strs' = extract_expressions(tex)
    /\ idx' = 1
    /\ stencils' = <<>>
    /\ pc' = "loop"
    /\ UNCHANGED <<tex, origin, parse_calls, stdout, lib_fail, out_file, files,
                   written, i, dir_made, cd_call, cd_ret>>

\* One iteration of for s in expr_strs, both handlers included.
ProcessSegment ==
    /\ pc = "loop"
    /\ idx <= Len(expr_strs)
    /\ LET res == SegmentResult(expr_strs[idx])
       IN  /\ parse_calls' = parse_calls \o res.calls
           /\ stencils' = stencils \o res.records
           /\ origin' = origin \o [k \in 1..Len(res.records) |-> idx]
           /\ stdout' = stdout \o [k \in 1..Len(res.warnings) |->
                                      [text |-> res.warnings[k], at |-> idx]]
           /\ idx' = NextIndex(res, idx, Len(expr_strs))
    /\ UNCHANGED <<tex, expr_strs, lib_fail, out_file, files, written, i, dir_made,
                   cd_call, cd_ret, pc>>

\* os.makedirs(stencils_dir, exist_ok=True), after the loop.
MakeDirs ==
    /\ pc = "loop"
    /\ idx > Len(expr_strs)
    /\ dir_made' = TRUE
    /\ pc' = "open"
    /\ UNCHANGED <<tex, expr_strs, idx, stencils, origin, parse_calls, stdout, lib_fail,
                   out_file, files, written, i, cd_call, cd_ret>>

\* open(args.output, 'w') and the preamble.
OpenOutput ==
    /\ pc = "open"
    /\ out_file' = Preamble
    /\ i' = 0
    /\ pc' = "write"
    /\ UNCHANGED <<tex, expr_strs, idx, stencils, origin, parse_calls, stdout, lib_fail,
                   files, written, dir_made, cd_call, cd_ret>>

\* One iteration of the writer loop: the block in the combined document and
\* the record's own file (opened with 'w': an existing file is replaced).
WriteRecord ==
    /\ pc = "write"
    /\ i < Len(stencils)
    /\ LET rec  == RecordAt(stencils, i)
           name == StencilFilename(rec, i)
       IN  /\ out_file' = out_file \o CombinedBlock(rec)
           /\ files' = (name :> StencilFile(rec)) @@ files
           /\ written' = Append(written, name)
    /\ i' = i + 1
    /\ UNCHANGED <<tex, expr_strs, idx, stencils, origin, parse_calls, stdout, lib_fail,
                   dir_made, cd_call, cd_ret, pc>>

\* f.write(r"\end{document}") and the end of the with block.
CloseOutput ==
    /\ pc = "write"
    /\ i >= Len(stencils)
    /\ out_file' = Append(out_file, EndDocument)
    /\ pc' = "summary"
    /\ UNCHANGED <<tex, expr_strs, idx, stencils, origin, parse_calls, stdout, lib_fail,
                   files, written, i, dir_made, cd_call, cd_ret>>

\* The two summary lines.
PrintSummary ==
    /\ pc = "summary"
    /\ stdout' = stdout \o
          << [text |-> [kind |-> "wrote_document"], at |-> 0],
             [text |-> [kind |-> "wrote_files", count |-> Len(stencils)], at |-> 0] >>
    /\ pc' = "done"
    /\ UNCHANGED <<tex, expr_strs, idx, stencils, origin, parse_calls, lib_fail,
                   out_file, files, written, i, dir_made, cd_call, cd_ret>>

\* The places where main touches the file system: reading the input,
\* creating the directory, opening the output, opening a per-record file.
AtFileOperation ==
    pc \in {"start", "open"}
        \/ (pc = "loop" /\ idx > Len(expr_strs))
        \/ (pc = "write" /\ i < Len(stencils))

\* An OSError is not caught anywhere: the run ends with the traceback.
IOError ==
    /\ AtFileOperation
    /\ pc' = "aborted"
    /\ UNCHANGED <<tex, expr_strs, idx, stencils, origin, parse_calls, stdout, lib_fail,
                   out_file, files, written, i, dir_made, cd_call, cd_ret>>

Next ==
    \/ ReadAndExtract
    \/ ProcessSegment
    \/ MakeDirs
    \/ OpenOutput
    \/ WriteRecord
    \/ CloseOutput
    \/ PrintSummary
    \/ IOError

Spec == Init /\ [][Next]_vars

(* ------------------------- extraction alone --------------------------- *)

\* extract_expressions on every raw text of at most MaxTexLen characters.
InitExtract ==
    /\ tex \in SeqsUpTo(RawAlphabet, MaxTexLen)
    /\ lib_fail = {}
    /\ Quiet
    /\ cd_call = <<>> /\ cd_ret = <<>>
    /\ pc = "start"

NextExtract == ReadAndExtract

SpecExtract == InitExtract /\ [][NextExtract]_vars

(* -------------------- generate_central_diff alone --------------------- *)

\* The expressions of the direct calls.
CallExprs ==
    {parse_latex(s) : s \in {x \in SeqsUpTo(SymbolTokens, MaxExprLen) : x # <<>>}}

\* A call generate_central_diff(expr, var, order) with any requested order,
\* made under the handler of the call site in main.
InitCall ==
    /\ cd_call \in [expr : CallExprs, var : Range(spatial_vars), order : 0..MaxOrder]
    /\ lib_fail \in {{}, {<<cd_call.expr.src, cd_call.var, cd_call.order>>}}
    /\ cd_ret = <<>>
    /\ tex = <<>>
    /\ Quiet
    /\ pc = "call"

\* try: generate_central_diff(...) except Exception as e: print(...)
CallCentralDiff ==
    /\ pc = "call"
    /\ LET g == generate_central_diff(cd_call.expr, cd_call.var, cd_call.order)
       IN  /\ cd_ret' = g
           /\ stdout' = IF g.ok THEN stdout
                        ELSE Append(stdout, [text |-> StencilWarning(cd_call.var, g), at |-> 0])
    /\ pc' = "returned"
    /\ UNCHANGED <<tex, expr_strs, idx, stencils, origin, parse_calls, lib_fail,
                   out_file, files, written, i, dir_made, cd_call>>

NextCall == CallCentralDiff

SpecCall == InitCall /\ [][NextCall]_vars

(* ------------------------------ properties ---------------------------- *)

\* The segments whose iteration is over.
Processed == 1..(idx - 1)

\* The loop over the segments has ended.
LoopDone ==
    pc \in {"open", "write", "summary", "done"} \/ (pc = "loop" /\ idx > Len(expr_strs))

\* The conversion of segment s fails.
ConversionFails(s) == ~parse_latex(ParserInput(s).text).ok

\* The record list of a whole loop over segs.
RECURSIVE RunRecords(_)
RunRecords(segs) ==
    IF segs = <<>> THEN <<>> ELSE SegmentResult(Head(segs)).records \o RunRecords(Tail(segs))

\* A line of kind kd was printed during the iteration of segment k.
Printed(k, kd) == \E n \in DOMAIN stdout : stdout[n].at = k /\ stdout[n].text.kind = kd

\* Segment k appended a record for variable v with accuracy label lab.
HasRecord(k, v, lab) ==
    \E n \in DOMAIN stencils :
        origin[n] = k /\ stencils[n].var = v /\ stencils[n].order = lab

\* C1: a segment whose conversion fails does not end the loop; it prints a
\* parse warning and appends nothing, and after any number of iterations the
\* record list is the one the loop produces on the processed segments with
\* the failing ones removed (earlier records kept, later ones still added).
C1_FailureIsolation ==
    LET done == SubSeq(expr_strs, 1, idx - 1)
        good == SelectSeq(done, LAMBDA s : ~ConversionFails(s))
    IN  /\ idx <= Len(expr_strs) + 1
        /\ stencils = RunRecords(good)
        /\ \A k \in Processed :
              ConversionFails(expr_strs[k]) =>
                  /\ Printed(k, "parse")
                  /\ k \notin Range(origin)

\* A finished run in which a failing segment is followed by a segment that
\* contributed records.
C1_Witness ==
    /\ pc = "done"
    /\ \E k \in Processed :
          /\ ConversionFails(expr_strs[k])
          /\ \E n \in DOMAIN origin : origin[n] > k

LabelOf(o) == IF o = 2 THEN Label2nd ELSE Label4th

OtherLabel(o) == IF o = 2 THEN Label4th ELSE Label2nd

\* Generation raises for variable f[2] at order f[3] in segment k.
GenerationFailsAt(f, k) ==
    /\ f \in lib_fail
    /\ k \in Processed
    /\ ~ConversionFails(expr_strs[k])
    /\ ParserInput(expr_strs[k]).text = f[1]

\* The variables of segment k that occur in its text, as symbol names.
SpatialIn(k) ==
    {v \in Range(spatial_vars) :
        \E c \in Range(ParserInput(expr_strs[k]).text) : SymbolName(c) = v}

\* C2 as stated: when generation fails for one (variable, order) of an
\* expression, only that combination is missing: the record of the other
\* order of the same variable and the records of the other variables exist.
C2_OnlyThatOrderSkipped ==
    \A f \in lib_fail : \A k \in Processed :
        GenerationFailsAt(f, k) =>
            /\ Printed(k, "stencil")
            /\ ~HasRecord(k, f[2], LabelOf(f[3]))
            /\ HasRecord(k, f[2], OtherLabel(f[3]))
            /\ \A w \in SpatialIn(k) \ {f[2]} :
                  HasRecord(k, w, Label2nd) /\ HasRecord(k, w, Label4th)

\* C2 amended: when generation fails for one (variable, order) of an
\* expression, a warning naming the variable is printed and both records of
\* that variable are skipped; both records of each other variable of the
\* expression are still produced.
C2_VariableSkipped ==
    \A f \in lib_fail : \A k \in Processed :
        GenerationFailsAt(f, k) =>
            /\ \E n \in DOMAIN stdout :
                  /\ stdout[n].at = k
                  /\ stdout[n].text.kind = "stencil"
                  /\ stdout[n].text.var = f[2]
            /\ ~HasRecord(k, f[2], Label2nd)
            /\ ~HasRecord(k, f[2], Label4th)
            /\ \A w \in SpatialIn(k) \ {f[2]} :
                  HasRecord(k, w, Label2nd) /\ HasRecord(k, w, Label4th)

\* A finished run in which generation failed at order 4 for one variable of
\* an expression that has another spatial variable.
C2_Witness ==
    /\ pc = "done"
    /\ \E f \in lib_fail : \E k \in Processed :
          /\ GenerationFailsAt(f, k)
          /\ f[3] = 4
          /\ SpatialIn(k) \ {f[2]} # {}

\* C3: the variable of every record is one of r, theta, phi and occurs in
\* the text of the expression the record was generated from, which is the
\* text parsed for the record's segment; no record is for t or h.
C3_OnlyFreeSpatialVariables ==
    \A n \in DOMAIN stencils :
        /\ stencils[n].var \in {"r", "theta", "phi"}
        /\ stencils[n].deriv.var = stencils[n].var
        /\ \E c \in Range(stencils[n].deriv.expr) : SymbolName(c) = stencils[n].var
        /\ stencils[n].deriv.expr = ParserInput(expr_strs[origin[n]]).text
        /\ \A k \in Processed : \A v \in {"r", "theta", "phi"} \ SpatialIn(k) :
              ~HasRecord(k, v, Label2nd) /\ ~HasRecord(k, v, Label4th)

\* A finished run with a record of an expression in which t or h occurs
\* and a spatial variable is absent.
C3_Witness ==
    /\ pc = "done"
    /\ \E n \in DOMAIN stencils :
          /\ Range(stencils[n].deriv.expr) \cap {"t", "h"} # {}
          /\ SpatialIn(origin[n]) # {"r", "theta", "phi"}

\* p is s without its leading and trailing whitespace.
IsTrimOf(p, s) ==
    /\ p = <<>> \/ (~IsSpace(p[1]) /\ ~IsSpace(p[Len(p)]))
    /\ \E a \in 0..Len(s) : \E b \in 0..Len(s) :
          /\ a + Len(p) + b = Len(s)
          /\ p = SubSeq(s, a + 1, Len(s) - b)
          /\ \A m \in 1..a : IsSpace(s[m])
          /\ \A m \in (Len(s) - b + 1)..Len(s) : IsSpace(s[m])

C5_OrderDispatch ==
    pc = "returned" =>
        /\ cd_call.order = 2 /\ lib_fail = {} =>
              cd_ret.ok /\ cd_ret.error = <<"O(h^", "2", ")">>
        /\ cd_call.order = 4 /\ lib_fail = {} =>
              cd_ret.ok /\ cd_ret.error = <<"O(h^", "4", ")">>
        /\ cd_call.order \notin {2, 4} =>
              /\ ~cd_ret.ok
              /\ cd_ret.exc = "ValueError: Unsupported stencil order"
              /\ \E n \in DOMAIN stdout : stdout[n].text.kind = "stencil"
        /\ cd_ret.ok => cd_call.order \in {2, 4}

\* A call with order 3 has raised and the handler has printed the warning.
C5_Witness ==
    /\ pc = "returned"
    /\ cd_call.order = 3
    /\ ~cd_ret.ok
    /\ stdout # <<>>

\* The run has written and closed the combined document.
Completed == pc \in {"summary", "done"}

\* C6: the combined document of a completed run with N records is the five
\* preamble writes, then for k = 1..N the block of the k-th record (comment
\* line, opening, the line of the record's derivative, stencil and error
\* label, closing), then the end-document marker and nothing else.
C6_CombinedDocument ==
    Completed =>
        LET N == Len(stencils)
        IN  /\ Len(out_file) = 5 + 4 * N + 1
            /\ out_file[1] = Text("\\documentclass{article}\n")
            /\ out_file[4] = Text("\\begin{document}\n\n")
            /\ out_file[5] = Text("\\section*{Finite Difference Stencils}\n\n")
            /\ \A k \in 1..N :
                  LET b == 5 + 4 * (k - 1)
                  IN  /\ out_file[b + 1].line = "comment"
                      /\ out_file[b + 1].order = stencils[k].order
                      /\ out_file[b + 1].var = stencils[k].var
                      /\ out_file[b + 2] = Text("\\[\n")
                      /\ out_file[b + 3].line = "approx"
                      /\ out_file[b + 3].lhs = Latex(stencils[k].deriv)
                      /\ out_file[b + 3].rhs = Latex(stencils[k].stencil)
                      /\ out_file[b + 3].err = stencils[k].err
                      /\ out_file[b + 4] = Text("\\]\n\n")
            /\ out_file[Len(out_file)] = Text("\\end{document}")

\* A finished run with at least four records whose first two differ from
\* the last two.
C6_Witness ==
    /\ pc = "done"
    /\ Len(stencils) >= 4
    /\ stencils[1].deriv # stencils[Len(stencils) - 1].deriv

\* The number written by a string of decimal digits.
RECURSIVE DigitsValue(_)
DigitsValue(d) ==
    IF d = <<>> THEN 0
    ELSE 10 * DigitsValue(SubSeq(d, 1, Len(d) - 1))
             + (CHOOSE v \in 0..9 : DigitChar(v) = d[Len(d)])

\* name is stencils/stencil_<var>_<label with underscores>_<k>.tex with k
\* written in at least three digits, zero-padded.
IsStencilName(name, rec, k) ==
    LET lab == IF rec.order = Label2nd
               THEN <<"2", "n", "d", "_", "o", "r", "d", "e", "r">>
               ELSE <<"4", "t", "h", "_", "o", "r", "d", "e", "r">>
        pre == <<"stencils/", "stencil_", rec.var, "_">> \o lab \o <<"_">>
        dig == SubSeq(name, Len(pre) + 1, Len(name) - 1)
    IN  /\ Len(name) >= Len(pre) + 4
        /\ SubSeq(name, 1, Len(pre)) = pre
        /\ name[Len(name)] = ".tex"
        /\ \A m \in DOMAIN dig : dig[m] \in {DigitChar(v) : v \in 0..9}
        /\ DigitsValue(dig) = k
        /\ Len(dig) > 3 => dig[1] # "0"

\* C7: a completed run with N records has written N per-record files, the
\* k-th record to the file named from its variable, its order label and k;
\* the names are pairwise distinct, every file still holds its own record,
\* and the summary line reports N.
C7_PerRecordFiles ==
    Completed =>
        LET N == Len(stencils)
        IN  /\ Len(written) = N
            /\ \A k \in 1..N : IsStencilName(written[k], stencils[k], k)
            /\ \A k \in 1..N : \A m \in 1..N : written[k] = written[m] => k = m
            /\ DOMAIN files = Range(written)
            /\ Cardinality(DOMAIN files) = N
            /\ \A k \in 1..N :
                  /\ files[written[k]][6].deriv = Latex(stencils[k].deriv)
                  /\ files[written[k]][11].rhs = Latex(stencils[k].stencil)
            /\ pc = "done" =>
                  /\ stdout[Len(stdout)].text.kind = "wrote_files"
                  /\ stdout[Len(stdout)].text.count = N

\* A finished run in which two records have the same variable and the same
\* order label, so that only the position tells their files apart.
C7_Witness ==
    /\ pc = "done"
    /\ \E k \in DOMAIN stencils : \E m \in DOMAIN stencils :
          /\ k < m
          /\ stencils[k].var = stencils[m].var
          /\ stencils[k].order = stencils[m].order
          /\ stencils[k].deriv # stencils[m].deriv

\* A warning line was printed during the iteration of segment k.
Warned(k) == Printed(k, "parse") \/ Printed(k, "stencil")

\* C8 as stated: every segment that contributes no record causes a warning.
C8_EverySilentSegmentWarned ==
    LoopDone =>
        \A k \in DOMAIN expr_strs : k \notin Range(origin) => Warned(k)

\* C8 amended: a segment whose conversion fails, or for one of whose
\* variables generation fails, causes a warning; a segment that contributes
\* no record and causes no warning is one that parsed and has none of r,
\* theta, phi in it.
C8_FailuresWarned ==
    \A k \in Processed :
        /\ ConversionFails(expr_strs[k]) => Printed(k, "parse")
        /\ (\E f \in lib_fail : GenerationFailsAt(f, k)) => Printed(k, "stencil")
        /\ (k \notin Range(origin) /\ ~Warned(k)) =>
              /\ ~ConversionFails(expr_strs[k])
              /\ SpatialIn(k) = {}

\* A finished run with a segment that parsed, has no spatial variable and
\* printed nothing, and a segment whose conversion failed.
C8_Witness ==
    /\ pc = "done"
    /\ \E k \in Processed :
          ~ConversionFails(expr_strs[k]) /\ SpatialIn(k) = {} /\ ~Warned(k)
    /\ \E k \in Processed : ConversionFails(expr_strs[k]) /\ Warned(k)

\* The matches that start in S: each start is an opening delimiter with a
\* closing delimiter behind it, and ends at the first such one.
CloseOf(text, p) == Min({c \in (p + 2)..Len(text) : CloseAt(text, c)})

Matchable(text, p) ==
    OpenAt(text, p) /\ \E c \in (p + 2)..Len(text) : CloseAt(text, c)

VarRank(v) == CHOOSE n \in DOMAIN spatial_vars : spatial_vars[n] = v

\* C10: in every state the record list is a sequence of pairs: a "2nd
\* order" record with label O(h^2) followed by a "4th order" record with
\* label O(h^4) for the same expression, variable and segment; pairs follow
\* the order of the segments and, within one segment, the order r, theta, phi.
C10_RecordPairs ==
    /\ Len(stencils) % 2 = 0
    /\ Len(origin) = Len(stencils)
    /\ \A j \in 1..(Len(stencils) \div 2) :
          LET a == stencils[2 * j - 1]
              b == stencils[2 * j]
          IN  /\ a.order = <<"2", "n", "d", " ", "o", "r", "d", "e", "r">>
              /\ a.err = <<"O(h^", "2", ")">>
              /\ b.order = <<"4", "t", "h", " ", "o", "r", "d", "e", "r">>
              /\ b.err = <<"O(h^", "4", ")">>
              /\ a.var = b.var
              /\ a.deriv = b.deriv
              /\ origin[2 * j - 1] = origin[2 * j]
              /\ origin[2 * j] \in Processed
              /\ a.deriv.expr = ParserInput(expr_strs[origin[2 * j]]).text
    /\ \A j \in 1..(Len(stencils) \div 2 - 1) :
          \/ origin[2 * j] < origin[2 * j + 2]
          \/ /\ origin[2 * j] = origin[2 * j + 2]
             /\ VarRank(stencils[2 * j].var) < VarRank(stencils[2 * j + 2].var)

\* A finished run with two pairs of one segment and a pair of a later one.
C10_Witness ==
    /\ pc = "done"
    /\ Len(stencils) >= 6
    /\ origin[1] = origin[3]
    /\ origin[3] < origin[Len(origin)]

=============================================================================
